---- MODULE Spec2Model ----
(***************************************************************************)
(* Supply Chain Sentinel (src/app.py): the risk-aggregation pipeline.      *)
(*                                                                         *)
(* Text is modelled as a sequence of one-character strings, so that        *)
(* splitting, trimming and substring search are computed and not assumed.  *)
(* An optional value (Python None or a value) is <<>> or <<value>>.        *)
(***************************************************************************)
EXTENDS Integers, Sequences, FiniteSets, TLC

VARIABLES
    file_content,      \* the uploaded manifest text
    packages,          \* parse_requirements' result: <<name, version>> pairs
    pc,                \* position of the script / of the function under study
    futures,           \* one record per submitted query_osv task
    finished_futures,  \* as_completed's queue: finished, not yet yielded
    collected,         \* during the fetch: task indices in the order
                       \* results[...] was assigned
    results,           \* fetch_all_vulnerabilities' dict: name -> vulns
    rows,              \* the aggregation loop's records
    joined,            \* the loop-local vulns of each iteration
    dist,              \* the four band counts and the total, once computed
    vulns,             \* argument of the trust scorer under study
    similarity,        \* argument of the trust scorer under study
    is_new,            \* argument of the trust scorer under study
    score,             \* calculate_trust_score's return value, once called
    reasons            \* score_breakdown's return value, once called

vars == <<file_content, packages, pc, futures, finished_futures, collected,
          results, rows, joined, dist, vulns, similarity, is_new, score,
          reasons>>

pipelineVars == <<file_content, packages, futures, finished_futures,
                  collected, results, rows, joined, dist>>

scorerVars == <<vulns, similarity, is_new, score, reasons>>

-----------------------------------------------------------------------------
(* Bounds of the model *)

\* longest manifest text of SpecParse, in characters
MaxTextLen == 4

\* most lines of a manifest of the pipeline
MaxLines == 2

\* longest vulnerability list handed to the trust scorer in SpecScore
MaxVulns == 2

-----------------------------------------------------------------------------
(* Optional values and strings *)

None == <<>>

Some(x) == <<x>>

\* Python's str.strip() on a line: the blanks a line can hold here
Whitespace == {" ", "\t"}

RECURSIVE lstrip(_)
lstrip(s) ==
    IF s = <<>> THEN <<>>
    ELSE IF Head(s) \in Whitespace THEN lstrip(Tail(s)) ELSE s

RECURSIVE rstrip(_)
rstrip(s) ==
    IF s = <<>> THEN <<>>
    ELSE IF s[Len(s)] \in Whitespace THEN rstrip(SubSeq(s, 1, Len(s) - 1))
    ELSE s

strip(s) == rstrip(lstrip(s))

\* s.startswith(p)
startswith(s, p) == Len(p) <= Len(s) /\ SubSeq(s, 1, Len(p)) = p

\* s.find(sub): the lowest index at which sub occurs in s, 0 when none
RECURSIVE findFrom(_, _, _)
findFrom(s, sub, i) ==
    IF i + Len(sub) - 1 > Len(s) THEN 0
    ELSE IF SubSeq(s, i, i + Len(sub) - 1) = sub THEN i
    ELSE findFrom(s, sub, i + 1)

find(s, sub) == findFrom(s, sub, 1)

\* sub in s
In(sub, s) == find(s, sub) # 0

\* s.split(sep, 1) for a sep that occurs in s
split1(s, sep) ==
    LET i == find(s, sep)
    IN  <<SubSeq(s, 1, i - 1), SubSeq(s, i + Len(sep), Len(s))>>

\* str.splitlines() for the line boundary "\n": no empty last line
RECURSIVE splitlinesFrom(_, _)
splitlinesFrom(s, cur) ==
    IF s = <<>> THEN (IF cur = <<>> THEN <<>> ELSE <<cur>>)
    ELSE IF Head(s) = "\n" THEN <<cur>> \o splitlinesFrom(Tail(s), <<>>)
    ELSE splitlinesFrom(Tail(s), Append(cur, Head(s)))

splitlines(s) == splitlinesFrom(s, <<>>)

-----------------------------------------------------------------------------
(* Manifest parser *)

\* the comparator tokens, in the order the loop tries them
SEPS == << <<"=", "=">>, <<">", "=">>, <<"<", "=">>, <<"~", "=">>, <<">">> >>

\* a mutant of SepLoop: split at the token that occurs leftmost in the line
SepLoopLeftmost(line, k) ==
    LET hits == {j \in 1..Len(SEPS) : In(SEPS[j], line)}
        best == CHOOSE j \in hits :
                    \A h \in hits :
                        \/ find(line, SEPS[j]) < find(line, SEPS[h])
                        \/ find(line, SEPS[j]) = find(line, SEPS[h]) /\ j <= h
    IN  IF hits = {} THEN <<line, None>>
        ELSE LET parts == split1(line, SEPS[best])
             IN  <<strip(parts[1]), Some(strip(parts[2]))>>

\* the for/else loop over the tokens, from token k on, for one kept line
RECURSIVE SepLoop(_, _)
SepLoop(line, k) ==
    IF k > Len(SEPS) THEN <<line, None>>
    ELSE IF In(SEPS[k], line)
         THEN LET parts == split1(line, SEPS[k])
              IN  <<strip(parts[1]), Some(strip(parts[2]))>>
         ELSE SepLoop(line, k + 1)

\* the loop over the lines, with the packages gathered so far
RECURSIVE LineLoop(_, _)
LineLoop(lines, acc) ==
    IF lines = <<>> THEN acc
    ELSE LET line == strip(Head(lines))
         IN  IF line = <<>> \/ startswith(line, <<"#">>)
             THEN LineLoop(Tail(lines), acc)
             ELSE LineLoop(Tail(lines), Append(acc, SepLoop(line, 1)))

\* a mutant of parse_requirements: a name declared before is not added again
RECURSIVE DedupLoop(_, _)
DedupLoop(lines, acc) ==
    IF lines = <<>> THEN acc
    ELSE LET line == strip(Head(lines))
             decl == SepLoop(line, 1)
         IN  IF \/ line = <<>>
                \/ startswith(line, <<"#">>)
                \/ \E i \in 1..Len(acc) : acc[i][1] = decl[1]
             THEN DedupLoop(Tail(lines), acc)
             ELSE DedupLoop(Tail(lines), Append(acc, decl))

parse_requirements_dedup(content) == DedupLoop(splitlines(content), <<>>)

parse_requirements(content) == LineLoop(splitlines(content), <<>>)

-----------------------------------------------------------------------------
(* Trust scorer *)

BASE_SCORE == 100

CRITICAL_DEDUCTION == 20

SIMILARITY_DEDUCTION == 50

NEW_DEDUCTION == 10

SIMILARITY_THRESHOLD == 90

CRITICAL == <<"C", "R", "I", "T", "I", "C", "A", "L">>

\* the explanation lines (the source writes the minus sign as U+2212)
CriticalLine == "-20: Critical vulnerabilities detected"

SimilarityLine == "-50: Looks like a typo of a popular package"

NewLine == "-10: Very new package (<30 days)"

SentinelLine == "No risk factors detected"

\* v.get(key, default) on a dict v
get(v, key, default) == IF key \in DOMAIN v THEN v[key] ELSE default

\* any("CRITICAL" in str(v.get("severity", "")) for v in vulns); the severity
\* of a record is a string here, which str() returns as it is
AnyCritical(vs) ==
    \E i \in 1..Len(vs) : In(CRITICAL, get(vs[i], "severity", <<>>))

Max(a, b) == IF a >= b THEN a ELSE b

\* a mutant of calculate_trust_score: the similarity test is strict
calculate_trust_score_strict(vs, sim, new) ==
    LET s1 == IF AnyCritical(vs) THEN BASE_SCORE - CRITICAL_DEDUCTION
              ELSE BASE_SCORE
        s2 == IF sim > SIMILARITY_THRESHOLD THEN s1 - SIMILARITY_DEDUCTION
              ELSE s1
        s3 == IF new THEN s2 - NEW_DEDUCTION ELSE s2
    IN  Max(s3, 0)

calculate_trust_score(vs, sim, new) ==
    LET s1 == IF AnyCritical(vs) THEN BASE_SCORE - CRITICAL_DEDUCTION
              ELSE BASE_SCORE
        s2 == IF sim >= SIMILARITY_THRESHOLD THEN s1 - SIMILARITY_DEDUCTION
              ELSE s1
        s3 == IF new THEN s2 - NEW_DEDUCTION ELSE s2
    IN  Max(s3, 0)

\* a mutant of score_breakdown: the similarity test is strict
score_breakdown_strict(vs, sim, new) ==
    LET r1 == IF AnyCritical(vs) THEN <<CriticalLine>> ELSE <<>>
        r2 == IF sim > SIMILARITY_THRESHOLD THEN Append(r1, SimilarityLine)
              ELSE r1
        r3 == IF new THEN Append(r2, NewLine) ELSE r2
    IN  IF r3 = <<>> THEN <<SentinelLine>> ELSE r3

score_breakdown(vs, sim, new) ==
    LET r1 == IF AnyCritical(vs) THEN <<CriticalLine>> ELSE <<>>
        r2 == IF sim >= SIMILARITY_THRESHOLD THEN Append(r1, SimilarityLine)
              ELSE r1
        r3 == IF new THEN Append(r2, NewLine) ELSE r2
    IN  IF r3 = <<>> THEN <<SentinelLine>> ELSE r3

\* trust_bar's colour bands, which the risk distribution repeats
SAFE_MIN == 80

REVIEW_MIN == 60

RISKY_MIN == 40

-----------------------------------------------------------------------------
(* Collaborators' answers *)

\* severity strings a vulnerability record may carry
Severities ==
    { CRITICAL,
      <<"C", "R", "I", "T", "I", "C", "A", "L", ":", " ", "r", "c", "e">>,
      <<"x", "C", "R", "I", "T", "I", "C", "A", "L">>,
      <<"c", "r", "i", "t", "i", "c", "a", "l">>,
      <<"H", "I", "G", "H">> }

\* vulnerability records: the severity is optional
VulnRecords ==
    {[id |-> "OSV-0"]} \cup {[id |-> "OSV-1", severity |-> s] : s \in Severities}

VulnLists == UNION {[1..n -> VulnRecords] : n \in 0..MaxVulns}

\* what the OSV endpoint may do with one request: the transport fails, or a
\* response arrives whose body is a JSON object (a dict) or cannot be decoded
OsvAnswers ==
    { [sent |-> FALSE, status_code |-> 0, body |-> None],
      [sent |-> TRUE, status_code |-> 500, body |-> None],
      [sent |-> TRUE, status_code |-> 200, body |-> None],
      [sent |-> TRUE, status_code |-> 200,
       body |-> Some([vulns |-> <<[id |-> "OSV-0"],
                                  [id |-> "OSV-1", severity |-> CRITICAL]>>])] }

\* what the PyPI endpoint may do with one request: any failure, or the age in
\* days of the first listed artifact
PypiAnswers == { [ok |-> FALSE, days |-> 0], [ok |-> TRUE, days |-> 29] }

TOP_PACKAGES ==
    << "requests", "flask", "django", "numpy", "pandas", "scipy",
       "matplotlib", "seaborn", "sqlalchemy", "fastapi", "pytest",
       "beautifulsoup4", "pillow", "opencv-python", "tensorflow",
       "torch", "scikit-learn", "celery", "redis", "uvicorn" >>

\* fuzz.ratio of one name against each popular name, in list order
RatioTables ==
    { [i \in 1..Len(TOP_PACKAGES) |-> IF i \in {2, 5} THEN 95 ELSE 20],
      [i \in 1..Len(TOP_PACKAGES) |-> 10] }

-----------------------------------------------------------------------------
(* OSV engine *)

HTTP_OK == 200

max_workers == 10

\* the request body of one query
Payload(package, version) ==
    IF version # None /\ version[1] # <<>>
    THEN [package |-> [name |-> package, ecosystem |-> "PyPI"],
          version |-> version[1]]
    ELSE [package |-> [name |-> package, ecosystem |-> "PyPI"]]

\* a mutant of query_osv: no try/except around the request and the decoding
query_osv_unguarded(package, version, answer) ==
    IF ~answer.sent THEN [raised |-> TRUE, value |-> <<>>]
    ELSE IF answer.status_code = HTTP_OK
         THEN IF answer.body = None THEN [raised |-> TRUE, value |-> <<>>]
              ELSE [raised |-> FALSE,
                    value |-> get(answer.body[1], "vulns", <<>>)]
         ELSE [raised |-> FALSE, value |-> <<>>]

\* query_osv's outcome for the endpoint's answer: whether it raised, and the
\* list it returned
query_osv(package, version, answer) ==
    IF ~answer.sent THEN [raised |-> FALSE, value |-> <<>>]
    ELSE IF answer.status_code = HTTP_OK
         THEN IF answer.body = None THEN [raised |-> FALSE, value |-> <<>>]
              ELSE [raised |-> FALSE,
                    value |-> get(answer.body[1], "vulns", <<>>)]
         ELSE [raised |-> FALSE, value |-> <<>>]

\* a mutant of AllCompleted: the loop ends at the first completed future
FirstCompleted == futures = <<>> \/ collected # <<>>

\* as_completed(futures) is exhausted: every future has been yielded
AllCompleted == Len(collected) = Len(futures)

-----------------------------------------------------------------------------
(* PyPI metadata, typosquatting *)

NEW_DAYS == 30

fetch_pypi_age(answer) == IF answer.ok THEN Some(answer.days) ELSE None

RECURSIVE TypoLoop(_, _, _, _)
TypoLoop(ratio, i, best_score, closest) ==
    IF i > Len(TOP_PACKAGES) THEN <<best_score, closest>>
    ELSE IF ratio[i] > best_score
         THEN TypoLoop(ratio, i + 1, ratio[i], Some(TOP_PACKAGES[i]))
         ELSE TypoLoop(ratio, i + 1, best_score, closest)

check_typosquatting(ratio) == TypoLoop(ratio, 1, 0, None)

-----------------------------------------------------------------------------
(* Inputs *)

\* the characters of a manifest text in SpecParse
Alphabet == {"a", "=", ">", "<", "~", " ", "#", "\n"}

Texts == UNION {[1..n -> Alphabet] : n \in 0..MaxTextLen}

\* the lines of a manifest of the pipeline: a==1, a==2, b, a comment, a blank
LineSet ==
    { <<"a", "=", "=", "1">>, <<"a", "=", "=", "2">>, <<"b">>,
      <<"#", " ", "c">>, <<" ">> }

RECURSIVE JoinLines(_)
JoinLines(ls) ==
    IF ls = <<>> THEN <<>>
    ELSE IF Len(ls) = 1 THEN ls[1]
    ELSE ls[1] \o <<"\n">> \o JoinLines(Tail(ls))

Manifests ==
    {JoinLines(ls) : ls \in UNION {[1..n -> LineSet] : n \in 0..MaxLines}}

-----------------------------------------------------------------------------
(* The script: upload, parse, fetch, aggregate, distribution *)

\* nothing uploaded, nothing computed
Idle ==
    /\ packages = <<>>
    /\ futures = <<>>
    /\ finished_futures = <<>>
    /\ collected = <<>>
    /\ results = <<>>
    /\ rows = <<>>
    /\ joined = <<>>
    /\ dist = None

NoScorerCall ==
    /\ vulns = <<>>
    /\ similarity = 0
    /\ is_new = FALSE
    /\ score = None
    /\ reasons = None

Init ==
    /\ file_content \in Manifests
    /\ pc = "upload"
    /\ Idle
    /\ NoScorerCall

\* packages = parse_requirements(uploaded_file.read().decode("utf-8"))
Parse ==
    /\ pc = "upload"
    /\ packages' = parse_requirements(file_content)
    /\ pc' = "parsed"
    /\ UNCHANGED <<file_content, futures, finished_futures, collected,
                   results, rows, joined, dist>>
    /\ UNCHANGED scorerVars

\* fetch_all_vulnerabilities is entered: results = {} and one task is
\* submitted per declaration, in declaration order
Submit ==
    /\ pc = "parsed"
    /\ futures' = [i \in 1..Len(packages) |->
                      [pkg |-> packages[i][1],
                       payload |-> Payload(packages[i][1], packages[i][2]),
                       state |-> "pending",
                       result |-> None,
                       answer |-> None]]
    /\ results' = <<>>
    /\ pc' = "as_completed"
    /\ UNCHANGED <<file_content, packages, finished_futures, collected, rows,
                   joined, dist>>
    /\ UNCHANGED scorerVars

\* a worker of the pool takes a pending task
StartTask(i) ==
    /\ futures[i].state = "pending"
    /\ Cardinality({j \in DOMAIN futures : futures[j].state = "running"})
           < max_workers
    /\ futures' = [futures EXCEPT ![i].state = "running"]
    /\ UNCHANGED <<file_content, packages, pc, finished_futures, collected,
                   results, rows, joined, dist>>
    /\ UNCHANGED scorerVars

\* the task's query_osv call ends, whatever the endpoint did
FinishTask(i, answer) ==
    /\ futures[i].state = "running"
    /\ futures' = [futures EXCEPT
                      ![i].state = "finished",
                      ![i].answer = Some(answer),
                      ![i].result = Some(query_osv(packages[i][1],
                                                   packages[i][2], answer))]
    /\ finished_futures' = Append(finished_futures, i)
    /\ UNCHANGED <<file_content, packages, pc, collected, results, rows,
                   joined, dist>>
    /\ UNCHANGED scorerVars

\* one turn of the as_completed loop: results[futures[future]] =
\* future.result(), which raises again what the task raised
Collect ==
    /\ pc = "as_completed"
    /\ finished_futures # <<>>
    /\ LET f == Head(finished_futures)
           r == futures[f].result[1]
       IN  IF r.raised
           THEN /\ pc' = "raised"
                /\ UNCHANGED <<results, collected>>
           ELSE /\ results' = [k \in DOMAIN results \cup {futures[f].pkg} |->
                                  IF k = futures[f].pkg THEN r.value
                                  ELSE results[k]]
                /\ collected' = Append(collected, f)
                /\ pc' = pc
    /\ finished_futures' = Tail(finished_futures)
    /\ UNCHANGED <<file_content, packages, futures, rows, joined, dist>>
    /\ UNCHANGED scorerVars

\* the loop is over, the executor is shut down, vuln_data = results; the
\* record of the loop's turns ends with the call
Return ==
    /\ pc = "as_completed"
    /\ AllCompleted
    /\ pc' = "aggregate"
    /\ collected' = <<>>
    /\ UNCHANGED <<file_content, packages, futures, finished_futures, results,
                   rows, joined, dist>>
    /\ UNCHANGED scorerVars

\* the declaration of the loop's next iteration
NextDeclaration == packages[Len(rows) + 1]

\* one iteration of "for pkg, ver in packages"
Aggregate(pypi, ratio) ==
    /\ pc = "aggregate"
    /\ Len(rows) < Len(packages)
    /\ LET pkg == NextDeclaration[1]
           ver == NextDeclaration[2]
           vs == get(results, pkg, <<>>)
           age == fetch_pypi_age(pypi)
           typo == check_typosquatting(ratio)
           new == age # None /\ age[1] < NEW_DAYS
           sc == calculate_trust_score(vs, typo[1], new)
       IN  /\ rows' = Append(rows,
                  [Package |-> pkg,
                   Version |-> IF ver # None /\ ver[1] # <<>> THEN ver[1]
                               ELSE <<"A", "n", "y">>,
                   Vulnerabilities |-> Len(vs),
                   Similarity |-> typo[1],
                   Closest |-> typo[2],
                   Age |-> age,
                   TrustScore |-> sc,
                   Explanation |-> score_breakdown(vs, typo[1], new)])
           /\ joined' = Append(joined, vs)
    /\ UNCHANGED <<file_content, packages, pc, futures, finished_futures,
                   collected, results, dist>>
    /\ UNCHANGED scorerVars

\* the four tests of the risk distribution on a trust score
IsSafe(t) == t >= SAFE_MIN

IsReview(t) == t >= REVIEW_MIN /\ t < SAFE_MIN

IsRisky(t) == t >= RISKY_MIN /\ t < REVIEW_MIN

IsDanger(t) == t < RISKY_MIN

\* df = pd.DataFrame(rows) and the four band counts; a frame built from no
\* rows has no "Trust Score" column, and selecting it raises KeyError
Distribution ==
    /\ pc = "aggregate"
    /\ Len(rows) = Len(packages)
    /\ IF rows = <<>>
       THEN /\ pc' = "KeyError"
            /\ dist' = dist
       ELSE /\ pc' = "done"
            /\ dist' = Some(
                   [safe |-> Cardinality({i \in 1..Len(rows) :
                                             IsSafe(rows[i].TrustScore)}),
                    review |-> Cardinality({i \in 1..Len(rows) :
                                               IsReview(rows[i].TrustScore)}),
                    risky |-> Cardinality({i \in 1..Len(rows) :
                                              IsRisky(rows[i].TrustScore)}),
                    danger |-> Cardinality({i \in 1..Len(rows) :
                                               IsDanger(rows[i].TrustScore)}),
                    total |-> Len(rows)])
    /\ UNCHANGED <<file_content, packages, futures, finished_futures,
                   collected, results, rows, joined>>
    /\ UNCHANGED scorerVars

Next ==
    \/ Parse
    \/ Submit
    \/ \E i \in DOMAIN futures : StartTask(i)
    \/ \E i \in DOMAIN futures : \E answer \in OsvAnswers : FinishTask(i, answer)
    \/ Collect
    \/ Return
    \/ \E pypi \in PypiAnswers : \E ratio \in RatioTables : Aggregate(pypi, ratio)
    \/ Distribution

Spec == Init /\ [][Next]_vars

-----------------------------------------------------------------------------
(* The parser alone, on every text over the alphabet *)

InitParse ==
    /\ file_content \in Texts
    /\ pc = "upload"
    /\ Idle
    /\ NoScorerCall

NextParse == Parse

SpecParse == InitParse /\ [][NextParse]_vars

-----------------------------------------------------------------------------
(* The trust scorer alone: both functions called on the same arguments *)

InitScore ==
    /\ file_content = <<>>
    /\ pc = "score"
    /\ Idle
    /\ vulns \in VulnLists
    /\ similarity \in 0..100
    /\ is_new \in BOOLEAN
    /\ score = None
    /\ reasons = None

CallScore ==
    /\ pc = "score"
    /\ score = None
    /\ score' = Some(calculate_trust_score(vulns, similarity, is_new))
    /\ UNCHANGED <<pc, vulns, similarity, is_new, reasons>>
    /\ UNCHANGED pipelineVars

CallBreakdown ==
    /\ pc = "score"
    /\ reasons = None
    /\ reasons' = Some(score_breakdown(vulns, similarity, is_new))
    /\ UNCHANGED <<pc, vulns, similarity, is_new, score>>
    /\ UNCHANGED pipelineVars

NextScore == CallScore \/ CallBreakdown

SpecScore == InitScore /\ [][NextScore]_vars

-----------------------------------------------------------------------------
(* Properties: what a manifest declares, stated without the parser's loops *)

Range(f) == {f[i] : i \in DOMAIN f}

\* sub occurs in s at index i
OccursAt(sub, s, i) ==
    /\ i >= 1
    /\ i + Len(sub) - 1 <= Len(s)
    /\ \A j \in 1..Len(sub) : s[i + j - 1] = sub[j]

\* t is s without its leading and trailing blanks
IsTrimOf(s, t) ==
    \E a \in 1..(Len(s) + 1) : \E b \in 0..Len(s) :
        /\ t = SubSeq(s, a, b)
        /\ \A j \in 1..(a - 1) : s[j] \in Whitespace
        /\ \A j \in (b + 1)..Len(s) : s[j] \in Whitespace
        /\ t # <<>> => t[1] \notin Whitespace /\ t[Len(t)] \notin Whitespace

Trimmed(s) ==
    CHOOSE t \in {SubSeq(s, a, b) : a \in 1..(Len(s) + 1), b \in 0..Len(s)} :
        IsTrimOf(s, t)

\* the trimmed lines of a text that are neither empty nor comments, in order
KeptLines(text) ==
    LET lines == splitlines(text)
        trimmed == [i \in 1..Len(lines) |-> Trimmed(lines[i])]
        Keep(l) == l # <<>> /\ l[1] # "#"
    IN  SelectSeq(trimmed, Keep)

\* d is the declaration of the kept line: split at the first occurrence of the
\* first token of the priority list that the line contains, or name-only
IsDeclOf(line, d) ==
    \/ /\ \A k \in 1..Len(SEPS) : \A i \in 1..Len(line) :
              ~OccursAt(SEPS[k], line, i)
       /\ d = <<line, None>>
    \/ \E k \in 1..Len(SEPS) : \E i \in 1..Len(line) :
          /\ OccursAt(SEPS[k], line, i)
          /\ \A j \in 1..(i - 1) : ~OccursAt(SEPS[k], line, j)
          /\ \A h \in 1..(k - 1) : \A j \in 1..Len(line) :
                 ~OccursAt(SEPS[h], line, j)
          /\ d[2] # None
          /\ IsTrimOf(SubSeq(line, 1, i - 1), d[1])
          /\ IsTrimOf(SubSeq(line, i + Len(SEPS[k]), Len(line)), d[2][1])

\* the version a record shows for a declaration's version
Shown(version) ==
    IF version = None \/ version[1] = <<>> THEN <<"A", "n", "y">>
    ELSE version[1]

\* C1: at every point of the aggregation loop, under every completion order
\* of the fetches, the i-th record carries the name and the version of the
\* i-th non-empty, non-comment line of the manifest, and once the loop is
\* over there is exactly one record per such line (duplicates included).
C1_RecordsFollowManifest ==
    LET kept == KeptLines(file_content)
    IN  /\ Len(rows) <= Len(kept)
        /\ pc \in {"done", "KeyError"} => Len(rows) = Len(kept)
        /\ \A i \in 1..Len(rows) :
               \E d \in {packages[i]} :
                   /\ IsDeclOf(kept[i], d)
                   /\ rows[i].Package = d[1]
                   /\ rows[i].Version = Shown(d[2])

\* a manifest declaring the same name twice has produced its two records
C1_Witness ==
    /\ pc = "done"
    /\ Len(rows) = 2
    /\ rows[1].Package = rows[2].Package
    /\ rows[1].Version # rows[2].Version

\* C7: every declaration is the split of its line at the first occurrence of
\* the first token, in the order ==, >=, <=, ~=, >, that the line contains,
\* with both parts trimmed; a line holding no token is a name with no version.
C7_SplitByTokenPriority ==
    pc = "parsed" =>
        LET kept == KeptLines(file_content)
        IN  /\ Len(packages) = Len(kept)
            /\ \A i \in 1..Len(kept) : IsDeclOf(kept[i], packages[i])

\* a line in which ">" stands left of "==" was split at "=="
C7_Witness ==
    /\ pc = "parsed"
    /\ \E i \in 1..Len(packages) :
           LET line == KeptLines(file_content)[i]
           IN  \E a, b \in 1..Len(line) :
                   /\ a < b
                   /\ OccursAt(<<">">>, line, a)
                   /\ OccursAt(<<"=", "=">>, line, b)
                   /\ packages[i][1] = Trimmed(SubSeq(line, 1, b - 1))

\* C8: every declaration parse_requirements produces has a non-empty name
\* without leading or trailing blanks.
C8_NameNonEmptyTrimmed ==
    pc = "parsed" =>
        \A i \in 1..Len(packages) :
            LET name == packages[i][1]
            IN  /\ name # <<>>
                /\ name[1] \notin Whitespace
                /\ name[Len(name)] \notin Whitespace

-----------------------------------------------------------------------------
(* Properties of the trust scorer *)

\* some record's severity holds the text CRITICAL
SomeSeverityCritical(vs) ==
    \E i \in 1..Len(vs) :
        /\ "severity" \in DOMAIN vs[i]
        /\ \E j \in 1..Len(vs[i].severity) : OccursAt(CRITICAL, vs[i].severity, j)

\* C2: calculate_trust_score returns max(0, 100 - D), D being 20 for a
\* CRITICAL severity plus 50 for a similarity of 90 or more plus 10 for a new
\* package; the result lies in 0..100 and is 20 when all three apply.
C2_ScoreFormula ==
    score # None =>
        LET D == (IF SomeSeverityCritical(vulns) THEN 20 ELSE 0)
                 + (IF similarity >= 90 THEN 50 ELSE 0)
                 + (IF is_new THEN 10 ELSE 0)
        IN  /\ score[1] = (IF 100 - D > 0 THEN 100 - D ELSE 0)
            /\ score[1] \in 0..100
            /\ D = 80 => score[1] = 20

\* the score of a new, look-alike package with a CRITICAL record
C2_Witness ==
    /\ score = Some(20)
    /\ is_new
    /\ similarity >= 90
    /\ SomeSeverityCritical(vulns)

\* the amount an explanation line names
Amount(line) ==
    CASE line = CriticalLine -> 20
      [] line = SimilarityLine -> 50
      [] line = NewLine -> 10
      [] OTHER -> 0

\* the place of an explanation line in the order vulnerability, similarity, age
Rank(line) ==
    CASE line = CriticalLine -> 1
      [] line = SimilarityLine -> 2
      [] line = NewLine -> 3
      [] OTHER -> 0

RECURSIVE SumAmounts(_)
SumAmounts(lines) ==
    IF lines = <<>> THEN 0 ELSE Amount(Head(lines)) + SumAmounts(Tail(lines))

\* C3: the explanation of score_breakdown names exactly the deductions that
\* calculate_trust_score applied (the three amounts have distinct sums, so
\* the score tells which were applied), one line each, in the order
\* vulnerability, similarity, age; it is never empty, and it is the single
\* sentinel line exactly when nothing was deducted.
C3_BreakdownMatchesScore ==
    (score # None /\ reasons # None) =>
        LET lines == reasons[1]
            D == 100 - score[1]
            applied == {a \in {20, 50, 10} :
                           \/ a = 20 /\ D \in {20, 30, 70, 80}
                           \/ a = 50 /\ D \in {50, 60, 70, 80}
                           \/ a = 10 /\ D \in {10, 30, 60, 80}}
            given == SelectSeq(lines, LAMBDA l : l # SentinelLine)
        IN  /\ lines # <<>>
            /\ {Amount(l) : l \in Range(given)} = applied
            /\ Len(given) = Cardinality(applied)
            /\ SumAmounts(given) = D
            /\ \A i \in 1..Len(given) : Rank(given[i]) >= 1
            /\ \A i, j \in 1..Len(given) : i < j => Rank(given[i]) < Rank(given[j])
            /\ (D = 0) <=> (lines = <<SentinelLine>>)
            /\ SentinelLine \in Range(lines) => lines = <<SentinelLine>>

\* both functions were called and all three deductions are explained
C3_Witness ==
    /\ score = Some(20)
    /\ reasons = Some(<<CriticalLine, SimilarityLine, NewLine>>)

-----------------------------------------------------------------------------
(* Properties of the fetch and of the aggregation *)

\* the endpoint failed: no response, a status other than 200, or a body that
\* cannot be decoded
Failed(answer) ==
    \/ ~answer.sent
    \/ answer.status_code # 200
    \/ answer.body = None

AllQueriesFailed ==
    \A i \in DOMAIN futures :
        futures[i].answer # None => Failed(futures[i].answer[1])

\* C4: when every query fails, no query_osv call raises, each returns the
\* empty list, fetch_all_vulnerabilities does not raise, and every record has
\* no vulnerability (count 0) and no CRITICAL deduction.
C4_FailuresYieldNoVulnerabilities ==
    AllQueriesFailed =>
        /\ pc # "raised"
        /\ \A i \in DOMAIN futures :
               futures[i].result # None =>
                   futures[i].result[1] = [raised |-> FALSE, value |-> <<>>]
        /\ \A i \in 1..Len(rows) :
               /\ joined[i] = <<>>
               /\ rows[i].Vulnerabilities = 0
               /\ CriticalLine \notin Range(rows[i].Explanation)
               /\ rows[i].TrustScore \in {100, 90, 50, 40}

\* two queries failed in different ways and both records were built
C4_Witness ==
    /\ pc = "done"
    /\ Len(rows) = 2
    /\ AllQueriesFailed
    /\ ~futures[1].answer[1].sent
    /\ futures[2].answer[1].sent
    /\ futures[2].answer[1].status_code = 200

\* C5: the mapping is in the caller's hands, and read by the aggregation
\* loop, only when every task submitted for the batch has completed and has
\* been stored: no fetch is in flight and no declared name is missing.
C5_JoinBarrier ==
    (pc \in {"aggregate", "done", "KeyError"} \/ rows # <<>>) =>
        /\ Len(futures) = Len(packages)
        /\ finished_futures = <<>>
        /\ \A i \in DOMAIN futures :
               /\ futures[i].state = "finished"
               /\ futures[i].pkg \in DOMAIN results

\* the loop reads the mapping of a batch of two
C5_Witness ==
    /\ pc = "aggregate"
    /\ Len(futures) = 2
    /\ Len(rows) = 1

\* the assignments results[k] = ... made so far in this call
Writes(k) ==
    Cardinality({j \in 1..Len(collected) : futures[collected[j]].pkg = k})

\* C6: during a call of fetch_all_vulnerabilities each key of the mapping has
\* been written exactly once.
C6_OneWritePerKey ==
    pc = "as_completed" => \A k \in DOMAIN results : Writes(k) = 1

\* C9: once the records are built, the four band counts exist, each record is
\* in exactly one band, and the counts add up to the number of records.
C9_BandsPartition ==
    pc \in {"done", "KeyError"} =>
        /\ dist # None
        /\ dist[1].safe + dist[1].review + dist[1].risky + dist[1].danger
               = Len(rows)
        /\ dist[1].total = Len(rows)
        /\ \A i \in 1..Len(rows) :
               LET t == rows[i].TrustScore
               IN  Cardinality({b \in 1..4 :
                       \/ b = 1 /\ t >= 80
                       \/ b = 2 /\ t >= 60 /\ t < 80
                       \/ b = 3 /\ t >= 40 /\ t < 60
                       \/ b = 4 /\ t < 40}) = 1

\* C10: the vulnerability list joined into the i-th record is the list
\* returned by a query issued for the i-th declaration's name and version.
C10_OwnQueryResult ==
    \A i \in 1..Len(joined) :
        \E j \in DOMAIN futures :
            /\ futures[j].payload = Payload(packages[i][1], packages[i][2])
            /\ joined[i] = futures[j].result[1].value

====
